---- MODULE Spec2Model ----
(***************************************************************************)
(* Voxel chunk meshing of landmark-client: the chunk store and coordinate  *)
(* types (game_map.rs), the visibility analysis and geometry emission      *)
(* (mesher.rs), and the request/result pipeline between the main thread    *)
(* and the meshing worker (mesher.rs, model.rs, lib.rs).                   *)
(*                                                                         *)
(* Scaling.  Chunk::SIZE is 32 in the source and the index buffer is u16.  *)
(* The model keeps both as parameters: SIZE is the chunk edge and          *)
(* INDEX_BITS the width of an index, chosen so that, as in the source, the *)
(* test terrain fits the index range while a chunk with many exposed faces *)
(* does not (32^3 cells give up to 98304 faces against 16384 addressable   *)
(* quads).  Positions are kept in units of one half, so that the quad      *)
(* corners (+-0.5) and the block centres (n + 0.5) are integers; the       *)
(* rounding of f32 arithmetic is not modelled.                             *)
(***************************************************************************)
EXTENDS Integers, Sequences, FiniteSets, TLC

\* Chunk::SIZE (scaled; 32 in the source).
SIZE == 3
\* Width in bits of one entry of ModelConstructor::indices (scaled; u16 in the source).
INDEX_BITS == 7
\* Number of chunk columns of the test map along X (scaled; -5..5 in the source).
MAP_SIZE_X == 2
\* Largest number of block edits the simulation side makes in one run.
MaxEdits == 1

BLOCKS_COUNT == SIZE * SIZE * SIZE

INDEX_MODULUS == 2 ^ INDEX_BITS

\* Option<T>: None is the empty sequence, Some(v) the one-element sequence.
None == << >>

Some(v) == << v >>

IsSome(o) == o # None

Unwrap(o) == o[1]

\* `let v = value; body(v)`: value is computed once and bound.
Let(value, body(_)) == CHOOSE out \in {body(v) : v \in {value}} : TRUE

-----------------------------------------------------------------------------
(* Coordinates and the chunk store (game_map.rs)                           *)

ChunkCoords_new(x, y, z) == [x |-> x, y |-> y, z |-> z]

\* as_translation without the factor Chunk::SIZE.
as_translationUnscaled(cc) == << cc.x, cc.y, cc.z >>

as_translation(cc) == << cc.x * SIZE, cc.y * SIZE, cc.z * SIZE >>

InnerChunkCoords_new(x, y, z) == [x |-> x, y |-> y, z |-> z]

\* as_idx with the factor of z written as SIZE instead of SIZE * SIZE.
as_idxRowStride(c) == c.z * SIZE + c.y * SIZE + c.x

\* z-major flat index (the `as usize` casts are the identity on the axes of a
\* cell of the chunk).
as_idx(c) == c.z * SIZE * SIZE + c.y * SIZE + c.x

\* Block centre, in half units: (x + 0.5, y + 0.5, z + 0.5).
as_block_center(c) == << 2 * c.x + 1, 2 * c.y + 1, 2 * c.z + 1 >>

\* impl ops::Add for InnerChunkCoords
InnerChunkCoordsAdd(a, b) == InnerChunkCoords_new(a.x + b.x, a.y + b.y, a.z + b.z)

\* impl From<FaceDirection> for InnerChunkCoords: the unit offset of a direction.
InnerChunkCoordsFromFaceDirection(d) ==
    CASE d = "PosX" -> InnerChunkCoords_new(1, 0, 0)
      [] d = "NegX" -> InnerChunkCoords_new(-1, 0, 0)
      [] d = "PosY" -> InnerChunkCoords_new(0, 1, 0)
      [] d = "NegY" -> InnerChunkCoords_new(0, -1, 0)
      [] d = "PosZ" -> InnerChunkCoords_new(0, 0, 1)
      [] d = "NegZ" -> InnerChunkCoords_new(0, 0, -1)

Chunk_new == [blocks |-> [i \in 0 .. BLOCKS_COUNT - 1 |-> None]]

get_block(chunk, coords) == chunk.blocks[as_idx(coords)]

\* set_block written with Vec::insert instead of an assignment to the cell.
set_blockInsert(chunk, coords, block) ==
    [blocks |-> [i \in 0 .. BLOCKS_COUNT |->
        IF i < as_idx(coords) THEN chunk.blocks[i]
        ELSE IF i = as_idx(coords) THEN block
        ELSE chunk.blocks[i - 1]]]

set_block(chunk, coords, block) ==
    [chunk EXCEPT !.blocks[as_idx(coords)] = block]

FaceDirections == {"PosX", "NegX", "PosY", "NegY", "PosZ", "NegZ"}

\* The discriminants of an enum declared PosX, PosY, PosZ, NegX, NegY, NegZ.
FaceDirectionAsUsizeAxisOrder(d) ==
    CASE d = "PosX" -> 0
      [] d = "PosY" -> 1
      [] d = "PosZ" -> 2
      [] d = "NegX" -> 3
      [] d = "NegY" -> 4
      [] d = "NegZ" -> 5

\* `FaceDirection::D as usize`: the discriminant, in declaration order.
FaceDirectionAsUsize(d) ==
    CASE d = "PosX" -> 0
      [] d = "NegX" -> 1
      [] d = "PosY" -> 2
      [] d = "NegY" -> 3
      [] d = "PosZ" -> 4
      [] d = "NegZ" -> 5

\* From<usize> whose last arm is a catch-all instead of 5.
FaceDirectionFromUsizeCatchAll(value) ==
    CASE value = 0 -> "PosX"
      [] value = 1 -> "NegX"
      [] value = 2 -> "PosY"
      [] value = 3 -> "NegY"
      [] value = 4 -> "PosZ"
      [] OTHER -> "NegZ"

\* impl From<usize> for FaceDirection; "panic" for a value outside 0..5.
FaceDirectionFromUsize(value) ==
    CASE value = 0 -> "PosX"
      [] value = 1 -> "NegX"
      [] value = 2 -> "PosY"
      [] value = 3 -> "NegY"
      [] value = 4 -> "PosZ"
      [] value = 5 -> "NegZ"
      [] OTHER -> "panic"

\* impl From<FaceDirection> for ChunkCoords: the unit offset of a direction.
ChunkCoordsFromFaceDirection(d) ==
    CASE d = "PosX" -> ChunkCoords_new(1, 0, 0)
      [] d = "NegX" -> ChunkCoords_new(-1, 0, 0)
      [] d = "PosY" -> ChunkCoords_new(0, 1, 0)
      [] d = "NegY" -> ChunkCoords_new(0, -1, 0)
      [] d = "PosZ" -> ChunkCoords_new(0, 0, 1)
      [] d = "NegZ" -> ChunkCoords_new(0, 0, -1)

ChunkCoordsAdd(a, b) == ChunkCoords_new(a.x + b.x, a.y + b.y, a.z + b.z)

-----------------------------------------------------------------------------
(* Geometry emission (mesher.rs, model.rs)                                 *)

VARIABLES
    u_call,             \* the last call made on a coordinate type or on u_chunk, with its outcome
    u_chunk,            \* a Chunk that set_block and get_block are called on
    u_calls,            \* number of set_block calls made on u_chunk
    overflow_checks,    \* build profile: TRUE when integer overflow panics (debug)
    m_request,          \* the request handed to mesh_chunk
    m_vis,              \* Some(generate_visibility_map(m_request)) once computed
    m_out,              \* Some(outcome of mesh_chunk(m_request)) once computed
    chunks,             \* GameMap::chunks
    chunk_entity_map,   \* GameMap::chunk_entity_map
    missing_model,      \* the chunk entities tagged MissingModel
    models,             \* the Model component of each chunk entity
    requests_chan,      \* queue of the MeshChunkRequest channel
    output_chan,        \* queue of the ConstructedChunk channel
    req_sender_alive,   \* the Sender<MeshChunkRequest> has not been dropped
    res_receiver_alive, \* the Receiver<ConstructedChunk> has not been dropped
    worker_pc,          \* position of chunk_mesher_loop
    worker_request,     \* the request the worker holds
    worker_result,      \* the ConstructedChunk the worker is about to send
    main_state,         \* "running", "stopped" or "panicked"
    sent_log,           \* history: every request sent, in order
    result_log,         \* history: every result the worker sent, in order
    taken_log,          \* history: every result taken by update_models_sys, in order
    worker_failure,     \* why chunk_mesher_loop ended: "none" while it runs
    edits               \* number of block edits made

unit_vars == << u_call, u_chunk, u_calls >>

mesh_vars == << overflow_checks, m_request, m_vis, m_out >>

pipe_vars ==
    << chunks, chunk_entity_map, missing_model, models, requests_chan,
       output_chan, req_sender_alive, res_receiver_alive, worker_pc,
       worker_request, worker_result, main_state, sent_log, result_log,
       taken_log, worker_failure, edits >>

vars == << unit_vars, mesh_vars, pipe_vars >>

\* ModelConstructor::new(), with the flag of a panic raised while it is filled.
ModelConstructor_new ==
    [vertices |-> << >>, indices |-> << >>,
     transform |-> [rotation |-> "DEFAULT", translation |-> << 0, 0, 0 >>],
     panicked |-> FALSE]

\* The quad of a face before rotation: a, b, c, d on the +Y side of the unit
\* cube centred at the origin (half units).
FacePoints == << << -1, 1, -1 >>, << 1, 1, -1 >>, << -1, 1, 1 >>, << 1, 1, 1 >> >>

\* Rotate with the quarter turn of NegZ taken the other way round X (rot_x(90)).
RotateNegZClockwise(face_dir, p) ==
    CASE face_dir = "PosX" -> << p[2], p[3], p[1] >>
      [] face_dir = "NegX" -> << -p[2], p[3], -p[1] >>
      [] face_dir = "PosY" -> p
      [] face_dir = "NegY" -> << p[1], -p[2], -p[3] >>
      [] face_dir = "PosZ" -> << -p[1], p[3], p[2] >>
      [] face_dir = "NegZ" -> << p[1], -p[3], p[2] >>

\* rot * p for the quaternion add_block_face picks for face_dir:
\*   PosX  from_euler(XZY, 0, -90, -90) = rot_z(-90) * rot_y(-90)
\*   NegX  from_euler(XZY, 0,  90,  90) = rot_z( 90) * rot_y( 90)
\*   PosY  IDENTITY
\*   NegY  from_euler(ZYX, 0, 0, 180)   = rot_x(180)
\*   PosZ  from_euler(ZXY, 0, 90, 180)  = rot_x( 90) * rot_y(180)
\*   NegZ  from_euler(ZYX, 0, 0, -90)   = rot_x(-90)
Rotate(face_dir, p) ==
    CASE face_dir = "PosX" -> << p[2], p[3], p[1] >>
      [] face_dir = "NegX" -> << -p[2], p[3], -p[1] >>
      [] face_dir = "PosY" -> p
      [] face_dir = "NegY" -> << p[1], -p[2], -p[3] >>
      [] face_dir = "PosZ" -> << -p[1], p[3], p[2] >>
      [] face_dir = "NegZ" -> << p[1], p[3], -p[2] >>

VecAdd(p, q) == << p[1] + q[1], p[2] + q[2], p[3] + q[3] >>

\* impl From<Color> for RawColor: the sRGB conversion, kept symbolic.
RawColorFrom(color) == [srgb_of |-> color]

Color_new(r, g, b) == << r, g, b >>

\* The index the next quad starts at: one past the last index pushed, in the
\* width of an index.  The sum overflows when the last index is the largest
\* one: a panic with overflow checks, a wrap to 0 without.
StartIndex(indices) ==
    IF Len(indices) > 0
    THEN (indices[Len(indices)] + 1) % INDEX_MODULUS
    ELSE 0

StartIndexOverflows(indices) ==
    Len(indices) > 0 /\ indices[Len(indices)] + 1 >= INDEX_MODULUS

\* add_block_face pushing the second triangle without its shared corner 1.
add_block_faceFiveIndices(mc, coords, face_dir, color) ==
    LET vertices == [i \in 1 .. 4 |->
                       [position |-> VecAdd(Rotate(face_dir, FacePoints[i]),
                                            as_block_center(coords)),
                        color |-> RawColorFrom(color)]]
        start_index == StartIndex(mc.indices)
    IN  IF StartIndexOverflows(mc.indices) /\ overflow_checks
        THEN [mc EXCEPT !.vertices = mc.vertices \o vertices, !.panicked = TRUE]
        ELSE [mc EXCEPT
                !.vertices = mc.vertices \o vertices,
                !.indices = mc.indices \o
                    << start_index + 0, start_index + 1, start_index + 2,
                       start_index + 2, start_index + 3 >>]

add_block_face(mc, coords, face_dir, color) ==
    LET vertices == [i \in 1 .. 4 |->
                       [position |-> VecAdd(Rotate(face_dir, FacePoints[i]),
                                            as_block_center(coords)),
                        color |-> RawColorFrom(color)]]
        start_index == StartIndex(mc.indices)
    IN  IF StartIndexOverflows(mc.indices) /\ overflow_checks
        THEN [mc EXCEPT !.vertices = mc.vertices \o vertices, !.panicked = TRUE]
        ELSE [mc EXCEPT
                !.vertices = mc.vertices \o vertices,
                !.indices = mc.indices \o
                    << start_index + 0, start_index + 1, start_index + 2,
                       start_index + 2, start_index + 1, start_index + 3 >>]

-----------------------------------------------------------------------------
(* Visibility analysis (mesher.rs)                                         *)

\* The coordinates of the k-th iteration (k from 0) of the nested loops
\* `for z { for y { for x { .. } } }`.
LoopCoords(k) ==
    InnerChunkCoords_new(k % SIZE, (k \div SIZE) % SIZE, k \div (SIZE * SIZE))

\* PosXVisible with the in-chunk test inverted (visible when the cell is occupied).
PosXVisibleInverted(request, x, y, z) ==
    IF x = SIZE - 1
    THEN IF IsSome(request.pos_x_adj)
         THEN get_block(Unwrap(request.pos_x_adj), InnerChunkCoords_new(0, y, z)) = None
         ELSE FALSE
    ELSE get_block(request.requested_chunk, InnerChunkCoords_new(x + 1, y, z)) # None

PosXVisible(request, x, y, z) ==
    IF x = SIZE - 1
    THEN IF IsSome(request.pos_x_adj)
         THEN get_block(Unwrap(request.pos_x_adj), InnerChunkCoords_new(0, y, z)) = None
         ELSE FALSE
    ELSE get_block(request.requested_chunk, InnerChunkCoords_new(x + 1, y, z)) = None

\* NegXVisible showing the boundary face when the neighbour snapshot is absent.
NegXVisibleAbsentShown(request, x, y, z) ==
    IF x = 0
    THEN IF IsSome(request.neg_x_adj)
         THEN get_block(Unwrap(request.neg_x_adj),
                        InnerChunkCoords_new(SIZE - 1, y, z)) = None
         ELSE TRUE
    ELSE get_block(request.requested_chunk, InnerChunkCoords_new(x - 1, y, z)) = None

NegXVisible(request, x, y, z) ==
    IF x = 0
    THEN IF IsSome(request.neg_x_adj)
         THEN get_block(Unwrap(request.neg_x_adj),
                        InnerChunkCoords_new(SIZE - 1, y, z)) = None
         ELSE FALSE
    ELSE get_block(request.requested_chunk, InnerChunkCoords_new(x - 1, y, z)) = None

\* PosYVisible taking an absent +Y snapshot for an empty one.
PosYVisibleAbsentShown(request, x, y, z) ==
    IF y = SIZE - 1
    THEN IF IsSome(request.pos_y_adj)
         THEN get_block(Unwrap(request.pos_y_adj), InnerChunkCoords_new(x, 0, z)) = None
         ELSE TRUE
    ELSE get_block(request.requested_chunk, InnerChunkCoords_new(x, y + 1, z)) = None

PosYVisible(request, x, y, z) ==
    IF y = SIZE - 1
    THEN IF IsSome(request.pos_y_adj)
         THEN get_block(Unwrap(request.pos_y_adj), InnerChunkCoords_new(x, 0, z)) = None
         ELSE FALSE
    ELSE get_block(request.requested_chunk, InnerChunkCoords_new(x, y + 1, z)) = None

NegYVisible(request, x, y, z) ==
    IF y = 0
    THEN IF IsSome(request.neg_y_adj)
         THEN get_block(Unwrap(request.neg_y_adj),
                        InnerChunkCoords_new(x, SIZE - 1, z)) = None
         ELSE FALSE
    ELSE get_block(request.requested_chunk, InnerChunkCoords_new(x, y - 1, z)) = None

PosZVisible(request, x, y, z) ==
    IF z = SIZE - 1
    THEN IF IsSome(request.pos_z_adj)
         THEN get_block(Unwrap(request.pos_z_adj), InnerChunkCoords_new(x, y, 0)) = None
         ELSE FALSE
    ELSE get_block(request.requested_chunk, InnerChunkCoords_new(x, y, z + 1)) = None

NegZVisible(request, x, y, z) ==
    IF z = 0
    THEN IF IsSome(request.neg_z_adj)
         THEN get_block(Unwrap(request.neg_z_adj),
                        InnerChunkCoords_new(x, y, SIZE - 1)) = None
         ELSE FALSE
    ELSE get_block(request.requested_chunk, InnerChunkCoords_new(x, y, z - 1)) = None

\* The six flags the loop body writes for an occupied cell.
BlockFlags(request, x, y, z) ==
    [f \in 0 .. 5 |->
        CASE f = FaceDirectionAsUsize("PosX") -> PosXVisible(request, x, y, z)
          [] f = FaceDirectionAsUsize("NegX") -> NegXVisible(request, x, y, z)
          [] f = FaceDirectionAsUsize("PosY") -> PosYVisible(request, x, y, z)
          [] f = FaceDirectionAsUsize("NegY") -> NegYVisible(request, x, y, z)
          [] f = FaceDirectionAsUsize("PosZ") -> PosZVisible(request, x, y, z)
          [] f = FaceDirectionAsUsize("NegZ") -> NegZVisible(request, x, y, z)]

\* VisibilityStep without the `continue` for an empty cell.
VisibilityStepNoSkip(request, visibility_map, k) ==
    Let(LoopCoords(k), LAMBDA coords :
        [visibility_map EXCEPT ![as_idx(coords)] =
            BlockFlags(request, coords.x, coords.y, coords.z)])

\* One iteration of the cell loops: an empty cell is skipped (`continue`), an
\* occupied one gets its six flags written at visibility_map[coords.as_idx()].
VisibilityStep(request, visibility_map, k) ==
    Let(LoopCoords(k), LAMBDA coords :
        IF get_block(request.requested_chunk, coords) = None
        THEN visibility_map
        ELSE [visibility_map EXCEPT ![as_idx(coords)] =
                 BlockFlags(request, coords.x, coords.y, coords.z)])

\* Iterations lo .. hi - 1 of the cell loops, in order.
RECURSIVE VisibilityLoop(_, _, _, _)
VisibilityLoop(request, visibility_map, lo, hi) ==
    IF hi - lo = 1
    THEN VisibilityStep(request, visibility_map, lo)
    ELSE Let((lo + hi) \div 2, LAMBDA mid :
             Let(VisibilityLoop(request, visibility_map, lo, mid), LAMBDA first :
                 VisibilityLoop(request, first, mid, hi)))

generate_visibility_map(request) ==
    VisibilityLoop(
        request,
        [i \in 0 .. BLOCKS_COUNT - 1 |-> [f \in 0 .. 5 |-> FALSE]],
        0, BLOCKS_COUNT)

\* The colour mesh_chunk gives the faces of the block at (x, _, z).
FaceColor(x, z) ==
    IF (x + z) % 2 = 0 THEN Color_new(16, 200, 16) ELSE Color_new(16, 164, 16)

\* One pass of the body of `for face in 0..6` for the cell of iteration k of
\* the cell loops.  A panic ends the function; an empty cell is skipped.
MeshStep(request, visibility_map, mc, k, face) ==
    Let(LoopCoords(k), LAMBDA coords :
        IF mc.panicked \/ get_block(request.requested_chunk, coords) = None
        THEN mc
        ELSE IF visibility_map[as_idx(coords)][face]
             THEN add_block_face(mc, coords, FaceDirectionFromUsize(face),
                                 FaceColor(coords.x, coords.z))
             ELSE mc)

\* The loops of mesh_chunk, flattened: pass n is face n % 6 of iteration
\* n \div 6 of the cell loops; passes lo .. hi - 1, in order.
RECURSIVE MeshLoop(_, _, _, _, _)
MeshLoop(request, visibility_map, mc, lo, hi) ==
    IF hi - lo = 1
    THEN MeshStep(request, visibility_map, mc, lo \div 6, lo % 6)
    ELSE Let((lo + hi) \div 2, LAMBDA mid :
             Let(MeshLoop(request, visibility_map, mc, lo, mid), LAMBDA first :
                 MeshLoop(request, visibility_map, first, mid, hi)))

\* mesh_chunk filling a ModelConstructor that outlives the call: the vertices
\* and indices of the previous result are still in it.
mesh_chunkKeepsConstructor(request) ==
    Let(generate_visibility_map(request), LAMBDA visibility_map :
        MeshLoop(
            request,
            visibility_map,
            [vertices |-> IF result_log = << >> THEN << >>
                          ELSE result_log[Len(result_log)].model_constructor.vertices,
             indices |-> IF result_log = << >> THEN << >>
                         ELSE result_log[Len(result_log)].model_constructor.indices,
             transform |-> [rotation |-> "IDENTITY",
                            translation |-> as_translation(request.requested_coords)],
             panicked |-> FALSE],
            0, BLOCKS_COUNT * 6))

\* mesh_chunk: the ModelConstructor it returns, or, with panicked set, the
\* state it was in when the worker thread panicked.
mesh_chunk(request) ==
    Let(generate_visibility_map(request), LAMBDA visibility_map :
        MeshLoop(
            request,
            visibility_map,
            [ModelConstructor_new EXCEPT
                !.transform = [rotation |-> "IDENTITY",
                               translation |-> as_translation(request.requested_coords)]],
            0, BLOCKS_COUNT * 6))

-----------------------------------------------------------------------------
(* Meshing one request: the inputs and the steps of SpecMesh               *)

\* The block id GameMap::new_test stores in column (bx, bz).
BlockIdAt(bx, bz) == (bx + bz) % 3

AllInnerCoords == {LoopCoords(k) : k \in 0 .. BLOCKS_COUNT - 1}

FullChunk ==
    [blocks |-> [i \in 0 .. BLOCKS_COUNT - 1 |->
                    Some(BlockIdAt(LoopCoords(i).x, LoopCoords(i).z))]]

CheckerChunk ==
    [blocks |-> [i \in 0 .. BLOCKS_COUNT - 1 |->
                    LET c == LoopCoords(i)
                    IN  IF (c.x + c.y + c.z) % 2 = 0
                        THEN Some(BlockIdAt(c.x, c.z))
                        ELSE None]]

\* The cells a single block or hole is put at: on each axis the low boundary,
\* an inner coordinate or the high boundary.
ProbeCells ==
    {c \in AllInnerCoords :
        /\ c.x \in {0, 1, SIZE - 1}
        /\ c.y \in {0, 1, SIZE - 1}
        /\ c.z \in {0, 1, SIZE - 1}}

\* Target chunks: empty, solid, a checkerboard, one block alone, one hole in
\* a solid chunk.
TargetChunks ==
    {Chunk_new, FullChunk, CheckerChunk}
    \cup {set_block(Chunk_new, c, Some(BlockIdAt(c.x, c.z))) : c \in ProbeCells}
    \cup {set_block(FullChunk, c, None) : c \in ProbeCells}

\* A neighbour snapshot: absent, empty, solid or a checkerboard.
NeighbourSnapshots == {None, Some(Chunk_new), Some(FullChunk), Some(CheckerChunk)}

\* The neighbours of a request: one direction holds `one`, the others `rest`
\* (InitMesh takes rest absent, or equal to `one`: all six alike).
Neighbours(d, one, rest) == [e \in FaceDirections |-> IF e = d THEN one ELSE rest]

MeshChunkRequest(coords, chunk, adj) ==
    [requested_coords |-> coords,
     requested_chunk |-> chunk,
     pos_x_adj |-> adj["PosX"],
     neg_x_adj |-> adj["NegX"],
     pos_y_adj |-> adj["PosY"],
     neg_y_adj |-> adj["NegY"],
     pos_z_adj |-> adj["PosZ"],
     neg_z_adj |-> adj["NegZ"]]

\* The neighbour snapshot of a request in direction d.
Adjacent(request, d) ==
    CASE d = "PosX" -> request.pos_x_adj
      [] d = "NegX" -> request.neg_x_adj
      [] d = "PosY" -> request.pos_y_adj
      [] d = "NegY" -> request.neg_y_adj
      [] d = "PosZ" -> request.pos_z_adj
      [] d = "NegZ" -> request.neg_z_adj

RequestCoords == {ChunkCoords_new(0, 0, 0), ChunkCoords_new(1, 0, -2)}

\* No call was made on the coordinate types or on the chunk store.
UnitIdle ==
    /\ u_call = None
    /\ u_chunk = Chunk_new
    /\ u_calls = 0

PipeIdle ==
    /\ chunks = << >>
    /\ chunk_entity_map = << >>
    /\ missing_model = {}
    /\ models = << >>
    /\ requests_chan = << >>
    /\ output_chan = << >>
    /\ req_sender_alive = TRUE
    /\ res_receiver_alive = TRUE
    /\ worker_pc = "recv"
    /\ worker_request = None
    /\ worker_result = None
    /\ main_state = "running"
    /\ sent_log = << >>
    /\ result_log = << >>
    /\ taken_log = << >>
    /\ worker_failure = "none"
    /\ edits = 0

InitMesh ==
    /\ overflow_checks \in BOOLEAN
    /\ \E coords \in RequestCoords, chunk \in TargetChunks, d \in FaceDirections,
          one \in NeighbourSnapshots :
          \E rest \in {None, one} :
              m_request = MeshChunkRequest(coords, chunk, Neighbours(d, one, rest))
    /\ m_vis = None
    /\ m_out = None
    /\ UnitIdle
    /\ PipeIdle

\* generate_visibility_map(&request)
GenerateVisibilityMap ==
    /\ m_vis = None
    /\ m_vis' = Some(generate_visibility_map(m_request))
    /\ UNCHANGED << unit_vars, overflow_checks, m_request, m_out, pipe_vars >>

\* mesh_chunk(&request)
MeshChunk ==
    /\ m_vis # None
    /\ m_out = None
    /\ m_out' = Some(mesh_chunk(m_request))
    /\ UNCHANGED << unit_vars, overflow_checks, m_request, m_vis, pipe_vars >>

NextMesh == GenerateVisibilityMap \/ MeshChunk

SpecMesh == InitMesh /\ [][NextMesh]_vars

-----------------------------------------------------------------------------
(* Properties of the visibility analysis and of the emitted geometry        *)

InChunk(c) ==
    /\ c.x \in 0 .. SIZE - 1
    /\ c.y \in 0 .. SIZE - 1
    /\ c.z \in 0 .. SIZE - 1

NeighbourCell(c, d) == InnerChunkCoordsAdd(c, InnerChunkCoordsFromFaceDirection(d))

IsPositiveDir(d) == d \in {"PosX", "PosY", "PosZ"}

\* The cell of the neighbour chunk that touches cell c across the boundary in
\* direction d: 0 (positive d) or SIZE - 1 (negative d) on the axis of d.
WrappedCell(c, d) ==
    LET w == IF IsPositiveDir(d) THEN 0 ELSE SIZE - 1
    IN  CASE d \in {"PosX", "NegX"} -> [c EXCEPT !.x = w]
          [] d \in {"PosY", "NegY"} -> [c EXCEPT !.y = w]
          [] d \in {"PosZ", "NegZ"} -> [c EXCEPT !.z = w]

Occupied(chunk, c) == chunk.blocks[c.z * SIZE * SIZE + c.y * SIZE + c.x] # None

OccupiedCells(chunk) == {c \in AllInnerCoords : Occupied(chunk, c)}

\* The flag generate_visibility_map computed for face d of cell c.
Flag(c, d) == Unwrap(m_vis)[c.z * SIZE * SIZE + c.y * SIZE + c.x][FaceDirectionAsUsize(d)]

Surrounded(chunk, c) ==
    \A d \in FaceDirections :
        InChunk(NeighbourCell(c, d)) /\ Occupied(chunk, NeighbourCell(c, d))

\* C1: for every occupied cell of the target chunk and every direction whose
\* neighbouring cell lies inside the chunk, the face's flag is true exactly
\* when that cell of the same chunk is empty; a block whose six in-chunk
\* neighbours are occupied has all six flags false.
C1_InChunkVisibility ==
    m_vis # None =>
        LET chunk == m_request.requested_chunk
        IN  /\ \A c \in OccupiedCells(chunk), d \in FaceDirections :
                  InChunk(NeighbourCell(c, d)) =>
                      (Flag(c, d) <=> ~Occupied(chunk, NeighbourCell(c, d)))
            /\ \A c \in OccupiedCells(chunk) :
                  Surrounded(chunk, c) => \A d \in FaceDirections : ~Flag(c, d)

\* A solid chunk with one hole: the block next to the hole shows the face
\* towards it, and an inner block is surrounded.
C1_Witness ==
    /\ m_vis # None
    /\ LET chunk == m_request.requested_chunk
       IN  /\ \E c \in OccupiedCells(chunk) :
                 Surrounded(chunk, c) /\ \A d \in FaceDirections : ~Flag(c, d)
           /\ \E c \in OccupiedCells(chunk), d \in FaceDirections :
                 /\ InChunk(NeighbourCell(c, d))
                 /\ ~Occupied(chunk, NeighbourCell(c, d))
                 /\ Flag(c, d)

\* C2: for every occupied cell and every direction that crosses the chunk
\* boundary there, the flag is true exactly when the neighbour snapshot of
\* that direction is present and its wrapped cell is empty (so it is false
\* when the snapshot is absent); between a solid target and a solid
\* neighbour no quad lies in the shared boundary plane.
C2_BoundaryVisibility ==
    /\ m_vis # None =>
          \A c \in OccupiedCells(m_request.requested_chunk), d \in FaceDirections :
              ~InChunk(NeighbourCell(c, d)) =>
                  (Flag(c, d) <=>
                      /\ Adjacent(m_request, d) # None
                      /\ ~Occupied(Adjacent(m_request, d)[1], WrappedCell(c, d)))
    /\ m_out # None =>
          \A d \in FaceDirections :
              (/\ m_request.requested_chunk = FullChunk
               /\ Adjacent(m_request, d) = Some(FullChunk)) =>
                  LET vs == m_out[1].vertices
                      axis == (FaceDirectionAsUsize(d) \div 2) + 1
                      plane == IF IsPositiveDir(d) THEN 2 * SIZE ELSE 0
                  IN  \A q \in 0 .. (Len(vs) \div 4) - 1 :
                          \E i \in 1 .. 4 : vs[4 * q + i].position[axis] # plane

\* A block on the boundary whose face across it is visible (neighbour present,
\* wrapped cell empty), and a block on the boundary whose neighbour is absent.
C2_Witness ==
    /\ m_vis # None
    /\ \E c \in OccupiedCells(m_request.requested_chunk), d \in FaceDirections :
          /\ ~InChunk(NeighbourCell(c, d))
          /\ Adjacent(m_request, d) # None
          /\ Adjacent(m_request, d)[1] = CheckerChunk
          /\ Flag(c, d)
    /\ \E c \in OccupiedCells(m_request.requested_chunk), d \in FaceDirections :
          /\ ~InChunk(NeighbourCell(c, d))
          /\ Adjacent(m_request, d) = None
          /\ ~Flag(c, d)

\* A solid target next to a solid neighbour, meshed, with faces on other sides.
C2_WitnessSolid ==
    /\ m_out # None
    /\ m_request.requested_chunk = FullChunk
    /\ \E d \in FaceDirections : Adjacent(m_request, d) = Some(FullChunk)

\* The faces flagged visible, in the order the loops of mesh_chunk visit them:
\* slot n (from 0) is face n % 6 of the cell of iteration n \div 6.
RECURSIVE VisibleFacesIn(_, _, _)
VisibleFacesIn(visibility_map, lo, hi) ==
    IF hi - lo = 1
    THEN LET c == LoopCoords(lo \div 6)
         IN  IF visibility_map[c.z * SIZE * SIZE + c.y * SIZE + c.x][lo % 6]
             THEN << [coords |-> c, face |-> lo % 6] >>
             ELSE << >>
    ELSE Let((lo + hi) \div 2, LAMBDA mid :
             VisibleFacesIn(visibility_map, lo, mid)
                 \o VisibleFacesIn(visibility_map, mid, hi))

VisibleFaces(visibility_map) == VisibleFacesIn(visibility_map, 0, BLOCKS_COUNT * 6)

\* C3: the geometry mesh_chunk returns has 4 vertices and 6 indices per face
\* flagged visible, and the k-th group of 4 vertices belongs to the k-th
\* visible face (its corners lie on the cube of that face's block).
C3_FourVerticesSixIndicesPerFace ==
    (m_out # None /\ ~m_out[1].panicked) =>
        LET faces == VisibleFaces(Unwrap(m_vis))
            mc == m_out[1]
        IN  /\ Len(mc.vertices) = 4 * Len(faces)
            /\ Len(mc.indices) = 6 * Len(faces)
            /\ \A k \in 1 .. Len(faces), i \in 1 .. 4, a \in 1 .. 3 :
                  LET centre == << 2 * faces[k].coords.x + 1,
                                   2 * faces[k].coords.y + 1,
                                   2 * faces[k].coords.z + 1 >>
                      p == mc.vertices[4 * (k - 1) + i].position
                  IN  p[a] \in {centre[a] - 1, centre[a] + 1}

\* A mesh of several faces was returned.
C3_Witness ==
    /\ m_out # None
    /\ ~m_out[1].panicked
    /\ Len(m_out[1].vertices) >= 8
    /\ Len(VisibleFaces(Unwrap(m_vis))) >= 2

\* C4: the k-th face emitted (k from 0) contributes the indices 4k, 4k+1,
\* 4k+2, 4k+2, 4k+1, 4k+3, every index is smaller than the number of
\* vertices, and the numbering never restarts or wraps (nor does emission
\* stop), however many faces the chunk has.
C4_IndicesContinue ==
    m_out # None =>
        LET mc == m_out[1]
            faces == VisibleFaces(Unwrap(m_vis))
        IN  /\ ~mc.panicked
            /\ Len(mc.indices) = 6 * Len(faces)
            /\ \A k \in 0 .. Len(faces) - 1 :
                  /\ mc.indices[6 * k + 1] = 4 * k
                  /\ mc.indices[6 * k + 2] = 4 * k + 1
                  /\ mc.indices[6 * k + 3] = 4 * k + 2
                  /\ mc.indices[6 * k + 4] = 4 * k + 2
                  /\ mc.indices[6 * k + 5] = 4 * k + 1
                  /\ mc.indices[6 * k + 6] = 4 * k + 3
            /\ \A j \in 1 .. Len(mc.indices) : mc.indices[j] < Len(mc.vertices)

\* The target of the request holds exactly one block, at c.
SingleBlockAt(c) == OccupiedCells(m_request.requested_chunk) = {c}

\* C18 as stated: a single block in an otherwise-empty chunk has all six
\* visibility flags true, in particular at (0, 0, 0) with no neighbour
\* snapshot present.
C18_SingleBlockAllVisible ==
    m_vis # None =>
        \A c \in AllInnerCoords :
            SingleBlockAt(c) => \A d \in FaceDirections : Flag(c, d)

\* C18 amended: a single block in an otherwise-empty chunk has the flag of a
\* direction true exactly when the cell next to it in that direction lies
\* inside the chunk, or the neighbour snapshot of that direction is present
\* and its touching cell is empty; a block with no cell on the chunk boundary
\* has all six flags true, and the block at (0, 0, 0) with no neighbour
\* snapshot present has PosX, PosY, PosZ true and NegX, NegY, NegZ false
\* (three quads).
C18_SingleBlockVisibility ==
    /\ m_vis # None =>
          \A c \in AllInnerCoords :
              SingleBlockAt(c) =>
                  /\ \A d \in FaceDirections :
                        Flag(c, d) <=>
                            \/ InChunk(NeighbourCell(c, d))
                            \/ /\ Adjacent(m_request, d) # None
                               /\ ~Occupied(Unwrap(Adjacent(m_request, d)), WrappedCell(c, d))
                  /\ (\A d \in FaceDirections : InChunk(NeighbourCell(c, d)))
                        => \A d \in FaceDirections : Flag(c, d)
    /\ (/\ m_out # None
        /\ SingleBlockAt(InnerChunkCoords_new(0, 0, 0))
        /\ \A d \in FaceDirections : Adjacent(m_request, d) = None) =>
          /\ {d \in FaceDirections : Flag(InnerChunkCoords_new(0, 0, 0), d)}
                = {"PosX", "PosY", "PosZ"}
          /\ Len(Unwrap(m_out).vertices) = 4 * 3
          /\ Len(Unwrap(m_out).indices) = 6 * 3

\* The block at (0, 0, 0) alone, no neighbour snapshot present, meshed.
C18_Witness ==
    /\ m_out # None
    /\ SingleBlockAt(InnerChunkCoords_new(0, 0, 0))
    /\ \A d \in FaceDirections : Adjacent(m_request, d) = None
    /\ ~Flag(InnerChunkCoords_new(0, 0, 0), "NegX")
    /\ Flag(InnerChunkCoords_new(0, 0, 0), "PosX")

\* The cube of cell c holds point p (half units).
OnCube(c, p) ==
    /\ p[1] \in 2 * c.x .. 2 * c.x + 2
    /\ p[2] \in 2 * c.y .. 2 * c.y + 2
    /\ p[3] \in 2 * c.z .. 2 * c.z + 2

\* C19: an empty cell has all six flags false and no quad is emitted for it
\* (every quad lies on the cube of an occupied cell, and there are as many
\* quads as flags set on occupied cells), whatever the neighbour snapshots;
\* for a target with no block the map is all false and no vertex or index is
\* emitted.
C19_EmptyCellsEmitNothing ==
    /\ m_vis # None =>
          \A c \in AllInnerCoords :
              ~Occupied(m_request.requested_chunk, c) =>
                  \A d \in FaceDirections : ~Flag(c, d)
    /\ m_out # None =>
          LET vs == Unwrap(m_out).vertices
              chunk == m_request.requested_chunk
          IN  /\ \A q \in 0 .. (Len(vs) \div 4) - 1 :
                    \E c \in OccupiedCells(chunk) :
                        \A i \in 1 .. 4 : OnCube(c, vs[4 * q + i].position)
              /\ ~Unwrap(m_out).panicked =>
                    Len(vs) = 4 * Cardinality({cd \in OccupiedCells(chunk) \X FaceDirections :
                                                 Flag(cd[1], cd[2])})
              /\ chunk = Chunk_new =>
                    /\ \A i \in DOMAIN Unwrap(m_vis) :
                          \A f \in 0 .. 5 : ~Unwrap(m_vis)[i][f]
                    /\ vs = << >>
                    /\ Unwrap(m_out).indices = << >>

\* A target with no block and a solid neighbour snapshot, meshed.
C19_Witness ==
    /\ m_out # None
    /\ m_request.requested_chunk = Chunk_new
    /\ \E d \in FaceDirections : Adjacent(m_request, d) = Some(FullChunk)
    /\ Unwrap(m_out).vertices = << >>

-----------------------------------------------------------------------------
(* Calls of the coordinate types (game_map.rs, mesher.rs): SpecCoords       *)

\* Largest usize FaceDirection::from is called with.
MaxFaceValue == 7

\* The axis values InnerChunkCoords::new is called with: the range of a chunk
\* and one value beyond each end.
AxisValues == -1 .. SIZE

\* impl From<usize> for FaceDirection of game_map.rs; "panic" for a value
\* outside 0..5.
GameMapFaceDirectionFromUsize(value) ==
    CASE value = 0 -> "PosX"
      [] value = 1 -> "NegX"
      [] value = 2 -> "PosY"
      [] value = 3 -> "NegY"
      [] value = 4 -> "PosZ"
      [] value = 5 -> "NegZ"
      [] OTHER -> "panic"

\* The record of a call that returned `result`.
Returned(fn, args, result) ==
    [fn |-> fn, args |-> args, result |-> Some(result), panicked |-> FALSE]

\* The record of a call that panicked.
Panicked(fn, args) ==
    [fn |-> fn, args |-> args, result |-> None, panicked |-> TRUE]

\* The record of a call of a FaceDirection::from whose match gave `outcome`.
FaceDirectionCall(fn, value, outcome) ==
    IF outcome = "panic"
    THEN Panicked(fn, << value >>)
    ELSE Returned(fn, << value >>, outcome)

NoCallYet ==
    /\ overflow_checks \in BOOLEAN
    /\ m_request = None
    /\ m_vis = None
    /\ m_out = None
    /\ UnitIdle
    /\ PipeIdle

InitCoords == NoCallYet

\* InnerChunkCoords::new(x, y, z)
CallInnerChunkCoordsNew ==
    /\ \E x \in AxisValues, y \in AxisValues, z \in AxisValues :
          u_call' = Some(Returned("InnerChunkCoords::new", << x, y, z >>,
                                  InnerChunkCoords_new(x, y, z)))
    /\ UNCHANGED << u_chunk, u_calls, mesh_vars, pipe_vars >>

\* a + b for a cell a of the chunk and the offset b of a direction
CallInnerChunkCoordsAdd ==
    /\ \E a \in ProbeCells, d \in FaceDirections :
          u_call' = Some(Returned("InnerChunkCoords::add",
                                  << a, InnerChunkCoordsFromFaceDirection(d) >>,
                                  InnerChunkCoordsAdd(a, InnerChunkCoordsFromFaceDirection(d))))
    /\ UNCHANGED << u_chunk, u_calls, mesh_vars, pipe_vars >>

\* InnerChunkCoords::from(direction)
CallInnerChunkCoordsFrom ==
    /\ \E d \in FaceDirections :
          u_call' = Some(Returned("InnerChunkCoords::from", << d >>,
                                  InnerChunkCoordsFromFaceDirection(d)))
    /\ UNCHANGED << u_chunk, u_calls, mesh_vars, pipe_vars >>

\* mesher::FaceDirection::from(value) and game_map::FaceDirection::from(value)
CallFaceDirectionFrom ==
    /\ \E value \in 0 .. MaxFaceValue :
          \/ u_call' = Some(FaceDirectionCall("mesher::FaceDirection::from", value,
                                              FaceDirectionFromUsize(value)))
          \/ u_call' = Some(FaceDirectionCall("game_map::FaceDirection::from", value,
                                              GameMapFaceDirectionFromUsize(value)))
    /\ UNCHANGED << u_chunk, u_calls, mesh_vars, pipe_vars >>

\* coords.as_idx() for a cell of the chunk
CallAsIdx ==
    /\ \E c \in AllInnerCoords :
          u_call' = Some(Returned("InnerChunkCoords::as_idx", << c >>, as_idx(c)))
    /\ UNCHANGED << u_chunk, u_calls, mesh_vars, pipe_vars >>

\* model_constructor.add_block_face(coords, face_dir, color) on an empty
\* ModelConstructor, for a cell of the chunk; the vertices it pushed.
CallAddBlockFace ==
    /\ \E c \in AllInnerCoords, d \in FaceDirections :
          u_call' = Some(Returned("add_block_face", << c, d >>,
                                  add_block_face(ModelConstructor_new, c, d,
                                                 FaceColor(c.x, c.z)).vertices))
    /\ UNCHANGED << u_chunk, u_calls, mesh_vars, pipe_vars >>

NextCoords ==
    \/ CallAddBlockFace
    \/ CallInnerChunkCoordsNew
    \/ CallInnerChunkCoordsAdd
    \/ CallInnerChunkCoordsFrom
    \/ CallFaceDirectionFrom
    \/ CallAsIdx

SpecCoords == InitCoords /\ [][NextCoords]_vars

\* The last call was one of fn.
Called(fn) == u_call # None /\ Unwrap(u_call).fn = fn

\* C11: no InnerChunkCoords with an axis outside 0 .. SIZE - 1 is ever built:
\* InnerChunkCoords::new, the sum of two InnerChunkCoords and the conversion
\* of a FaceDirection either return coordinates inside the chunk or panic.
C11_NoOutOfRangeCoords ==
    (\/ Called("InnerChunkCoords::new")
     \/ Called("InnerChunkCoords::add")
     \/ Called("InnerChunkCoords::from"))
        => \/ Unwrap(u_call).panicked
           \/ InChunk(Unwrap(Unwrap(u_call).result))

\* C12: FaceDirection::from(value) is PosX, NegX, PosY, NegY, PosZ, NegZ for
\* value 0, 1, 2, 3, 4, 5, and panics, returning no direction, for every
\* other value (both implementations).
C12_FaceDirectionFromUsize ==
    (Called("mesher::FaceDirection::from") \/ Called("game_map::FaceDirection::from")) =>
        LET call == Unwrap(u_call)
            value == call.args[1]
        IN  IF value \in 0 .. 5
            THEN /\ ~call.panicked
                 /\ call.result =
                       Some(<< "PosX", "NegX", "PosY", "NegY", "PosZ", "NegZ" >>[value + 1])
            ELSE /\ call.panicked
                 /\ call.result = None

\* Each implementation was called with a value past 5 and panicked.
C12_Witness ==
    /\ u_call # None
    /\ Unwrap(u_call).fn \in {"mesher::FaceDirection::from", "game_map::FaceDirection::from"}
    /\ Unwrap(u_call).args[1] > 5
    /\ Unwrap(u_call).panicked

\* C13: as_idx is z * SIZE^2 + y * SIZE + x on the cells of a chunk, lies in
\* 0 .. SIZE^3 - 1, is decoded by (i mod SIZE, (i div SIZE) mod SIZE,
\* i div SIZE^2), differs for different cells and reaches every index.
C13_AsIdxBijection ==
    Called("InnerChunkCoords::as_idx") =>
        LET c == Unwrap(u_call).args[1]
            i == Unwrap(Unwrap(u_call).result)
        IN  /\ i = c.z * SIZE * SIZE + c.y * SIZE + c.x
            /\ i \in 0 .. SIZE * SIZE * SIZE - 1
            /\ c = [x |-> i % SIZE, y |-> (i \div SIZE) % SIZE, z |-> i \div (SIZE * SIZE)]
            /\ \A other \in AllInnerCoords : other # c => as_idx(other) # i
            /\ {as_idx(other) : other \in AllInnerCoords} = 0 .. SIZE * SIZE * SIZE - 1

\* as_idx was called on the cell with the largest index.
C13_Witness ==
    /\ Called("InnerChunkCoords::as_idx")
    /\ Unwrap(u_call).args[1] = InnerChunkCoords_new(SIZE - 1, SIZE - 1, SIZE - 1)
    /\ Unwrap(Unwrap(u_call).result) = SIZE * SIZE * SIZE - 1

-----------------------------------------------------------------------------
(* Calls of the chunk store (game_map.rs): SpecChunk                        *)

\* Largest number of set_block calls made on one chunk.
MaxCalls == 2

\* `self.blocks[coords.as_idx()]` panics.  as_idx casts each axis to usize
\* and sums in usize: with a negative axis the sum overflows or is past the
\* end of the Vec when overflow is checked, and wraps to as_idx(coords) modulo
\* 2^64 when it is not; the Vec index then panics unless it is below the
\* length.
IndexPanics(chunk, coords) ==
    \/ overflow_checks /\ (coords.x < 0 \/ coords.y < 0 \/ coords.z < 0)
    \/ as_idx(coords) \notin DOMAIN chunk.blocks

\* The coordinates set_block and get_block are called with: cells of the
\* chunk, and coordinates with one axis out of range (InnerChunkCoords::new
\* builds them).
CallCoords ==
    {InnerChunkCoords_new(0, 0, 0), InnerChunkCoords_new(0, 1, 0),
     InnerChunkCoords_new(SIZE - 1, 0, 0),
     InnerChunkCoords_new(SIZE - 1, SIZE - 1, SIZE - 1),
     InnerChunkCoords_new(SIZE, 0, 0), InnerChunkCoords_new(-1, 1, 0),
     InnerChunkCoords_new(0, 0, SIZE)}

InitChunk == NoCallYet

\* No call has panicked (a panic unwinds the thread that owns the chunk).
NoPanicYet == IF u_call = None THEN TRUE ELSE ~Unwrap(u_call).panicked

\* chunk.set_block(coords, block)
CallSetBlock ==
    /\ NoPanicYet
    /\ u_calls < MaxCalls
    /\ \E coords \in CallCoords, block \in {None, Some(1)} :
          IF IndexPanics(u_chunk, coords)
          THEN /\ u_call' = Some(Panicked("Chunk::set_block", << u_chunk, coords, block >>))
               /\ UNCHANGED u_chunk
          ELSE /\ u_call' = Some(Returned("Chunk::set_block", << u_chunk, coords, block >>,
                                          "unit"))
               /\ u_chunk' = set_block(u_chunk, coords, block)
    /\ u_calls' = u_calls + 1
    /\ UNCHANGED << mesh_vars, pipe_vars >>

\* chunk.get_block(coords)
CallGetBlock ==
    /\ NoPanicYet
    /\ \E coords \in CallCoords :
          IF IndexPanics(u_chunk, coords)
          THEN u_call' = Some(Panicked("Chunk::get_block", << u_chunk, coords >>))
          ELSE u_call' = Some(Returned("Chunk::get_block", << u_chunk, coords >>,
                                       get_block(u_chunk, coords)))
    /\ UNCHANGED << u_chunk, u_calls, mesh_vars, pipe_vars >>

NextChunk == CallSetBlock \/ CallGetBlock

SpecChunk == InitChunk /\ [][NextChunk]_vars

\* C14: a chunk has SIZE^3 cells, all empty when created, and keeps that
\* number of cells through every set_block and get_block; a set_block(c, v)
\* that returns leaves get_block(c) = v and every other cell as it was, and a
\* get_block, or a call that panics, leaves every cell as it was.
C14_ChunkNeverResizes ==
    /\ BLOCKS_COUNT = SIZE * SIZE * SIZE
    /\ DOMAIN u_chunk.blocks = 0 .. SIZE * SIZE * SIZE - 1
    /\ u_call = None => \A i \in DOMAIN u_chunk.blocks : u_chunk.blocks[i] = None
    /\ Called("Chunk::get_block") => u_chunk = Unwrap(u_call).args[1]
    /\ Called("Chunk::set_block") =>
          LET before == Unwrap(u_call).args[1]
              c == Unwrap(u_call).args[2]
              v == Unwrap(u_call).args[3]
              at == c.z * SIZE * SIZE + c.y * SIZE + c.x
          IN  IF Unwrap(u_call).panicked
              THEN u_chunk = before
              ELSE /\ u_chunk.blocks[at] = v
                   /\ \A i \in 0 .. SIZE * SIZE * SIZE - 1 :
                         i # at => u_chunk.blocks[i] = before.blocks[i]
                   /\ InChunk(c) =>
                         \A other \in AllInnerCoords :
                            other # c => get_block(u_chunk, other) = get_block(before, other)

\* A second set_block returned, on a chunk the first had put a block into, and
\* changed a cell.
C14_Witness ==
    /\ Called("Chunk::set_block")
    /\ ~Unwrap(u_call).panicked
    /\ u_calls >= 2
    /\ Unwrap(u_call).args[1] # Chunk_new
    /\ u_chunk # Unwrap(u_call).args[1]

-----------------------------------------------------------------------------
(* The world map and the meshing pipeline (game_map.rs, lib.rs, mesher.rs,  *)
(* model.rs)                                                                *)

\* The chunk coordinates GameMap::new_test fills: one row of columns, y = 0.
ChunkColumns == {ChunkCoords_new(cx, 0, 0) : cx \in 0 .. MAP_SIZE_X - 1}

\* The height of column (bx, bz) of the chunk at (cx, 0, cz) in new_test.
MaxY(cx, cz, bx, bz) ==
    (IF (cx + cz) % 2 = 0 THEN 3 ELSE 2)
    + (IF bx \in 3 .. SIZE - 3 /\ bz \in 3 .. SIZE - 3 THEN 1 ELSE 0)

\* The chunk new_test builds by set_block over every column.
NewTestChunk(cx, cz) ==
    [blocks |-> [i \in 0 .. BLOCKS_COUNT - 1 |->
        LET c == LoopCoords(i)
        IN  IF c.y < MaxY(cx, cz, c.x, c.z)
            THEN Some(BlockIdAt(c.x, c.z))
            ELSE None]]

\* The EntityId world.add_entity returns for the chunk at coords.
EntityIdOf(coords) == coords.x + 1

\* new_test without the chunk_entity_map.insert for the first chunk.
new_testHandleSkipped ==
    [chunks |-> [c \in ChunkColumns |-> NewTestChunk(c.x, c.z)],
     chunk_entity_map |->
        [c \in ChunkColumns \ {ChunkCoords_new(0, 0, 0)} |-> EntityIdOf(c)]]

\* The GameMap GameMap::new_test returns: every chunk it builds is inserted
\* into chunks, and its entity into chunk_entity_map under the same key.
new_test ==
    [chunks |-> [c \in ChunkColumns |-> NewTestChunk(c.x, c.z)],
     chunk_entity_map |-> [c \in ChunkColumns |-> EntityIdOf(c)]]

\* Init of the pipeline: GameMap::new_test, the two channels, the spawned
\* worker blocked in recv (Game::init).
GameInit ==
    /\ chunks = new_test.chunks
    /\ chunk_entity_map = new_test.chunk_entity_map
    /\ missing_model = {EntityIdOf(c) : c \in ChunkColumns}
    /\ models = [e \in {EntityIdOf(c) : c \in ChunkColumns} |-> None]
    /\ requests_chan = << >>
    /\ output_chan = << >>
    /\ req_sender_alive = TRUE
    /\ res_receiver_alive = TRUE
    /\ worker_pc = "recv"
    /\ worker_request = None
    /\ worker_result = None
    /\ main_state = "running"
    /\ sent_log = << >>
    /\ result_log = << >>
    /\ taken_log = << >>
    /\ worker_failure = "none"
    /\ edits = 0

Init ==
    /\ overflow_checks \in BOOLEAN
    /\ m_request = None
    /\ m_vis = None
    /\ m_out = None
    /\ UnitIdle
    /\ GameInit

\* GameMap: the chunk at coords, if loaded.
chunk_at(coords) ==
    IF coords \in DOMAIN chunks THEN Some(chunks[coords]) ELSE None

\* GameMap: the chunk across face d of the chunk at coords.
adjacent(coords, d) == chunk_at(ChunkCoordsAdd(coords, ChunkCoordsFromFaceDirection(d)))

\* The request built for the chunk at coords: copies of the chunk and of its
\* loaded neighbours.
BuildRequest(coords) ==
    MeshChunkRequest(coords, chunks[coords],
                     [d \in FaceDirections |-> adjacent(coords, d)])

\* The worker is alive: its Receiver<MeshChunkRequest> and
\* Sender<ConstructedChunk> have not been dropped.
WorkerAlive == worker_pc \notin {"exited", "panicked"}

\* A request for coords was sent and its result has not been taken yet.
InFlight(coords) ==
    \/ \E i \in 1 .. Len(requests_chan) : requests_chan[i].requested_coords = coords
    \/ /\ worker_pc \in {"mesh", "send"}
       /\ Unwrap(worker_request).requested_coords = coords
    \/ \E i \in 1 .. Len(output_chan) : output_chan[i].coords = coords

\* mesh_missing_chunks_sys without the in-flight test: every tagged chunk.
NeedsMeshingIgnoringInFlight ==
    {c \in DOMAIN chunks :
        c \in DOMAIN chunk_entity_map /\ chunk_entity_map[c] \in missing_model}

\* The chunks mesh_missing_chunks_sys requests: tagged MissingModel, loaded,
\* and not in flight.
NeedsMeshing ==
    {c \in DOMAIN chunks :
        /\ c \in DOMAIN chunk_entity_map
        /\ chunk_entity_map[c] \in missing_model
        /\ ~InFlight(c)}

\* The orders in which a set can be iterated.
Orderings(S) ==
    {f \in [1 .. Cardinality(S) -> S] : \A i, j \in 1 .. Cardinality(S) : f[i] = f[j] => i = j}

\* Game::update, workload "update": mesh_missing_chunks_sys sends one request
\* per chunk that needs meshing, in iteration order, and removes the tag.
Update ==
    /\ main_state = "running"
    /\ WorkerAlive
    /\ NeedsMeshing # {}
    /\ \E order \in Orderings(NeedsMeshing) :
          LET sent == [i \in 1 .. Len(order) |-> BuildRequest(order[i])]
          IN  /\ requests_chan' = requests_chan \o sent
              /\ sent_log' = sent_log \o sent
    /\ missing_model' = missing_model \ {chunk_entity_map[c] : c \in NeedsMeshing}
    /\ UNCHANGED << unit_vars, mesh_vars, chunks, chunk_entity_map, models, output_chan,
                    req_sender_alive, res_receiver_alive, worker_pc, worker_request,
                    worker_result, main_state, result_log, taken_log,
                    worker_failure, edits >>

\* The cells the simulation edits, and the chunks an edit of a cell marks:
\* the chunk itself and the loaded chunks whose boundary the cell touches.
EditCells ==
    {InnerChunkCoords_new(0, 0, 0), InnerChunkCoords_new(SIZE - 1, SIZE - 1, SIZE - 1)}

Touched(coords, cell) ==
    {coords} \cup
    {ChunkCoordsAdd(coords, ChunkCoordsFromFaceDirection(d)) : d \in
        {d \in FaceDirections :
            /\ ~(/\ InnerChunkCoordsAdd(cell, InnerChunkCoordsFromFaceDirection(d)).x \in 0 .. SIZE - 1
                 /\ InnerChunkCoordsAdd(cell, InnerChunkCoordsFromFaceDirection(d)).y \in 0 .. SIZE - 1
                 /\ InnerChunkCoordsAdd(cell, InnerChunkCoordsFromFaceDirection(d)).z \in 0 .. SIZE - 1)
            /\ ChunkCoordsAdd(coords, ChunkCoordsFromFaceDirection(d)) \in DOMAIN chunks}}

\* A block edit by the simulation thread: Chunk::set_block on a loaded
\* chunk; the touched chunks are tagged MissingModel again.
Edit ==
    /\ main_state = "running"
    /\ edits < MaxEdits
    /\ \E coords \in DOMAIN chunks, cell \in EditCells :
          \E block \in {None, Some(BlockIdAt(cell.x, cell.z))} :
              /\ chunks' = [chunks EXCEPT ![coords] = set_block(@, cell, block)]
              /\ missing_model' = missing_model \cup
                    {chunk_entity_map[c] : c \in Touched(coords, cell) \cap DOMAIN chunk_entity_map}
    /\ edits' = edits + 1
    /\ UNCHANGED << unit_vars, mesh_vars, chunk_entity_map, models, requests_chan, output_chan,
                    req_sender_alive, res_receiver_alive, worker_pc, worker_request,
                    worker_result, main_state, sent_log, result_log, taken_log,
                    worker_failure >>

\* The ModelConstructor proper (vertices, indices, transform) of an outcome of
\* mesh_chunk.
Geometry(mc) ==
    [vertices |-> mc.vertices, indices |-> mc.indices, transform |-> mc.transform]

\* The loop body of chunk_mesher_loop reading the live world map instead of
\* the request it received.
chunk_mesher_loop_bodyLiveWorld(request) ==
    Let(mesh_chunk(BuildRequest(request.requested_coords)), LAMBDA mc :
        [panicked |-> mc.panicked,
         result |-> [coords |-> request.requested_coords,
                     model_constructor |-> Geometry(mc)]])

\* The loop body of chunk_mesher_loop up to the send: mesh the request and
\* pair the geometry with the request's coordinates.
chunk_mesher_loop_body(request) ==
    Let(mesh_chunk(request), LAMBDA mc :
        [panicked |-> mc.panicked,
         result |-> [coords |-> request.requested_coords,
                     model_constructor |-> Geometry(mc)]])

\* requests.recv() handing out the newest queued request instead of the oldest.
RecvNewest(queue) == [request |-> queue[Len(queue)], rest |-> SubSeq(queue, 1, Len(queue) - 1)]

\* requests.recv() skipping a request when another one is queued behind it.
RecvSkipping(queue) ==
    IF Len(queue) >= 2
    THEN [request |-> queue[2], rest |-> SubSeq(queue, 3, Len(queue))]
    ELSE [request |-> Head(queue), rest |-> Tail(queue)]

\* requests.recv() on a non-empty channel: the oldest request.
Recv(queue) == [request |-> Head(queue), rest |-> Tail(queue)]

\* requests.recv() failing as soon as every sender is dropped, queued
\* requests or not.
WorkerRecvDisconnectFirst ==
    /\ worker_pc = "recv"
    /\ \/ /\ requests_chan # << >>
          /\ req_sender_alive
          /\ worker_request' = Some(Recv(requests_chan).request)
          /\ requests_chan' = Recv(requests_chan).rest
          /\ worker_pc' = "mesh"
          /\ UNCHANGED worker_failure
       \/ /\ ~req_sender_alive
          /\ worker_pc' = "exited"
          /\ worker_failure' = "RecvError"
          /\ UNCHANGED << worker_request, requests_chan >>
    /\ UNCHANGED << unit_vars, mesh_vars, chunks, chunk_entity_map, missing_model, models,
                    output_chan, req_sender_alive, res_receiver_alive, worker_result,
                    main_state, sent_log, result_log, taken_log, edits >>

\* chunk_mesher_loop, `requests.recv()`: blocks while the channel is empty and
\* a sender lives; Ok(request) when one is queued; Err once the channel is
\* empty and every sender is dropped, which ends the loop.
WorkerRecv ==
    /\ worker_pc = "recv"
    /\ \/ /\ requests_chan # << >>
          /\ worker_request' = Some(Recv(requests_chan).request)
          /\ requests_chan' = Recv(requests_chan).rest
          /\ worker_pc' = "mesh"
          /\ UNCHANGED worker_failure
       \/ /\ requests_chan = << >>
          /\ ~req_sender_alive
          /\ worker_pc' = "exited"
          /\ worker_failure' = "RecvError"
          /\ UNCHANGED << worker_request, requests_chan >>
    /\ UNCHANGED << unit_vars, mesh_vars, chunks, chunk_entity_map, missing_model, models,
                    output_chan, req_sender_alive, res_receiver_alive, worker_result,
                    main_state, sent_log, result_log, taken_log, edits >>

\* chunk_mesher_loop, `mesh_chunk(&request)`.
WorkerMesh ==
    /\ worker_pc = "mesh"
    /\ \E body \in {chunk_mesher_loop_body(Unwrap(worker_request))} :
           IF body.panicked
           THEN /\ worker_pc' = "panicked"
                /\ worker_failure' = "Overflow"
                /\ UNCHANGED worker_result
           ELSE /\ worker_pc' = "send"
                /\ worker_result' = Some(body.result)
                /\ UNCHANGED worker_failure
    /\ UNCHANGED << unit_vars, mesh_vars, chunks, chunk_entity_map, missing_model, models,
                    requests_chan, output_chan, req_sender_alive, res_receiver_alive,
                    worker_request, main_state, sent_log, result_log, taken_log,
                    edits >>

\* chunk_mesher_loop with the send repeated: two results per request.
WorkerSendTwice ==
    /\ worker_pc = "send"
    /\ IF res_receiver_alive
       THEN /\ output_chan' = output_chan \o << Unwrap(worker_result), Unwrap(worker_result) >>
            /\ result_log' = result_log \o << Unwrap(worker_result), Unwrap(worker_result) >>
            /\ worker_pc' = "recv"
            /\ worker_request' = None
            /\ worker_result' = None
            /\ UNCHANGED worker_failure
       ELSE /\ worker_pc' = "panicked"
            /\ worker_failure' = "SendError"
            /\ UNCHANGED << output_chan, result_log, worker_request, worker_result >>
    /\ UNCHANGED << unit_vars, mesh_vars, chunks, chunk_entity_map, missing_model, models,
                    requests_chan, req_sender_alive, res_receiver_alive, main_state,
                    sent_log, taken_log, edits >>

\* chunk_mesher_loop, `output.send(..).unwrap()`: queues the result, or
\* panics on the Err of a dropped receiver.
WorkerSend ==
    /\ worker_pc = "send"
    /\ IF res_receiver_alive
       THEN /\ output_chan' = Append(output_chan, Unwrap(worker_result))
            /\ result_log' = Append(result_log, Unwrap(worker_result))
            /\ worker_pc' = "recv"
            /\ worker_request' = None
            /\ worker_result' = None
            /\ UNCHANGED worker_failure
       ELSE /\ worker_pc' = "panicked"
            /\ worker_failure' = "SendError"
            /\ UNCHANGED << output_chan, result_log, worker_request, worker_result >>
    /\ UNCHANGED << unit_vars, mesh_vars, chunks, chunk_entity_map, missing_model, models,
                    requests_chan, req_sender_alive, res_receiver_alive, main_state,
                    sent_log, taken_log, edits >>

\* Model::new(&renderer.device, model_constructor), without the GPU buffers.
Model_new(model_constructor) ==
    [_vertices |-> model_constructor.vertices,
     indices |-> model_constructor.indices,
     _transform |-> model_constructor.transform]

\* The number of leading results of the queue update_models_sys integrates
\* before one without an entry in chunk_entity_map makes it panic.
RoutablePrefix(queue) ==
    IF \E i \in 1 .. Len(queue) : queue[i].coords \notin DOMAIN chunk_entity_map
    THEN (CHOOSE i \in 1 .. Len(queue) :
            /\ queue[i].coords \notin DOMAIN chunk_entity_map
            /\ \A j \in 1 .. i - 1 : queue[j].coords \in DOMAIN chunk_entity_map) - 1
    ELSE Len(queue)

\* update_models_sys discarding a result as stale when its chunk has been
\* tagged MissingModel again since the request was sent.
RECURSIVE AttachUnlessStale(_, _, _)
AttachUnlessStale(m, queue, n) ==
    IF n = 0
    THEN m
    ELSE IF chunk_entity_map[queue[n].coords] \in missing_model
         THEN AttachUnlessStale(m, queue, n - 1)
         ELSE [AttachUnlessStale(m, queue, n - 1) EXCEPT
                  ![chunk_entity_map[queue[n].coords]] =
                      Some(Model_new(queue[n].model_constructor))]

\* update_models_sys attaching the n-th result of a run to the n-th entity
\* instead of looking its coordinates up in chunk_entity_map.
RECURSIVE AttachByArrival(_, _, _)
AttachByArrival(m, queue, n) ==
    IF n = 0
    THEN m
    ELSE [AttachByArrival(m, queue, n - 1) EXCEPT
            ![((n - 1) % MAP_SIZE_X) + 1] =
                Some(Model_new(queue[n].model_constructor))]

\* The Model components after the results queue[1 .. n] were attached in order.
RECURSIVE Attach(_, _, _)
Attach(m, queue, n) ==
    IF n = 0
    THEN m
    ELSE [Attach(m, queue, n - 1) EXCEPT
            ![chunk_entity_map[queue[n].coords]] =
                Some(Model_new(queue[n].model_constructor))]

\* update_models_sys with `if let Ok(..)` in place of `while let Ok(..)`: one
\* result is taken per run.
RenderOneResult ==
    /\ main_state = "running"
    /\ IF output_chan = << >>
       THEN UNCHANGED << models, taken_log, output_chan >>
       ELSE /\ output_chan[1].coords \in DOMAIN chunk_entity_map
            /\ models' = Attach(models, output_chan, 1)
            /\ taken_log' = Append(taken_log, output_chan[1])
            /\ output_chan' = Tail(output_chan)
    /\ UNCHANGED << unit_vars, mesh_vars, chunks, chunk_entity_map, missing_model,
                    requests_chan, req_sender_alive, res_receiver_alive, worker_pc,
                    worker_request, worker_result, main_state, sent_log, result_log,
                    worker_failure, edits >>

\* Game::render, workload "render": update_models_sys takes results with
\* try_recv until the channel is empty (or disconnected and empty) and
\* attaches each to the entity its coordinates map to; with no result queued
\* it returns at once and changes nothing.  A result whose coordinates have
\* no entity panics (the main thread unwinds and the process ends).
Render ==
    /\ main_state = "running"
    /\ LET n == RoutablePrefix(output_chan)
       IN  /\ models' = Attach(models, output_chan, n)
           /\ IF n = Len(output_chan)
              THEN /\ taken_log' = taken_log \o output_chan
                   /\ output_chan' = << >>
                   /\ UNCHANGED main_state
              ELSE /\ taken_log' = taken_log \o SubSeq(output_chan, 1, n + 1)
                   /\ output_chan' = SubSeq(output_chan, n + 2, Len(output_chan))
                   /\ main_state' = "panicked"
    /\ UNCHANGED << unit_vars, mesh_vars, chunks, chunk_entity_map, missing_model, requests_chan,
                    req_sender_alive, res_receiver_alive, worker_pc, worker_request,
                    worker_result, sent_log, result_log, worker_failure, edits >>

\* The game loop exits (g.exit()): the Game and its World are dropped.
Exit ==
    /\ main_state = "running"
    /\ main_state' = "stopped"
    /\ UNCHANGED << unit_vars, mesh_vars, chunks, chunk_entity_map, missing_model, models,
                    requests_chan, output_chan, req_sender_alive, res_receiver_alive,
                    worker_pc, worker_request, worker_result, sent_log, result_log,
                    taken_log, worker_failure, edits >>

\* Dropping the World drops the MeshRequestsSender unique.
DropRequestSender ==
    /\ main_state # "running"
    /\ req_sender_alive
    /\ req_sender_alive' = FALSE
    /\ UNCHANGED << unit_vars, mesh_vars, chunks, chunk_entity_map, missing_model, models,
                    requests_chan, output_chan, res_receiver_alive, worker_pc,
                    worker_request, worker_result, main_state, sent_log, result_log,
                    taken_log, worker_failure, edits >>

\* Dropping the World drops the ConstructedModelsReceiver unique, and with it
\* the results still queued.
DropResultReceiver ==
    /\ main_state # "running"
    /\ res_receiver_alive
    /\ res_receiver_alive' = FALSE
    /\ output_chan' = << >>
    /\ UNCHANGED << unit_vars, mesh_vars, chunks, chunk_entity_map, missing_model, models,
                    requests_chan, req_sender_alive, worker_pc, worker_request,
                    worker_result, main_state, sent_log, result_log, taken_log,
                    worker_failure, edits >>

Worker == WorkerRecv \/ WorkerMesh \/ WorkerSend

Next ==
    \/ Update
    \/ Edit
    \/ Render
    \/ WorkerRecv
    \/ WorkerMesh
    \/ WorkerSend
    \/ Exit
    \/ DropRequestSender
    \/ DropResultReceiver

Spec == Init /\ [][Next]_vars
\* The worker thread and the frames of the game loop keep being scheduled,
\* and a World that is being dropped drops both channel ends.
FairSpec ==
    /\ Spec
    /\ WF_vars(Worker)
    /\ WF_vars(Render)
    /\ WF_vars(DropRequestSender)
    /\ WF_vars(DropResultReceiver)

\* A chunk handle is removed from the registry (an event the source never
\* performs; the specification names it as one the integration step must
\* survive).
UnregisterChunk ==
    /\ main_state = "running"
    /\ \E c \in DOMAIN chunk_entity_map :
          chunk_entity_map' = [d \in DOMAIN chunk_entity_map \ {c} |-> chunk_entity_map[d]]
    /\ UNCHANGED << unit_vars, mesh_vars, chunks, missing_model, models, requests_chan,
                    output_chan, req_sender_alive, res_receiver_alive, worker_pc,
                    worker_request, worker_result, main_state, sent_log, result_log,
                    taken_log, worker_failure, edits >>

NextRegistry == Next \/ UnregisterChunk

SpecRegistry == Init /\ [][NextRegistry]_vars

-----------------------------------------------------------------------------
(* Properties of the pipeline                                              *)

SentCount(c) ==
    Cardinality({i \in 1 .. Len(sent_log) : sent_log[i].requested_coords = c})

TakenCount(c) ==
    Cardinality({i \in 1 .. Len(taken_log) : taken_log[i].coords = c})

\* C5: at most one MeshChunkRequest per chunk coordinate is outstanding (sent
\* and its ConstructedChunk not yet taken by the integration step).
C5_AtMostOneInFlight ==
    \A c \in ChunkColumns : SentCount(c) - TakenCount(c) <= 1

\* A chunk was requested again after its first result had returned, and is
\* outstanding once.
C5_Witness ==
    \E c \in ChunkColumns :
        /\ SentCount(c) >= 2
        /\ SentCount(c) - TakenCount(c) = 1

\* C6: the coordinates of the results the worker has sent are a prefix of the
\* coordinates of the requests sent to it.
C6_ResultsInRequestOrder ==
    /\ Len(result_log) <= Len(sent_log)
    /\ \A k \in 1 .. Len(result_log) :
          result_log[k].coords = sent_log[k].requested_coords

\* Two results for different chunks were sent.
C6_Witness ==
    /\ Len(result_log) >= 2
    /\ result_log[1].coords # result_log[2].coords

\* A bound on the number of requests of one run: one per chunk at start, and
\* the chunks an edit touches.
MaxRequests == MAP_SIZE_X + 2 * MaxEdits

ChannelEndDropped ==
    \/ ~req_sender_alive
    \/ ~res_receiver_alive
    \/ ~WorkerAlive

\* C7: under fair scheduling every request sent is eventually meshed and its
\* result taken by update_models_sys, unless a channel end is dropped first.
C7_EveryRequestServed ==
    \A k \in 1 .. MaxRequests :
        (Len(sent_log) >= k) ~>
            \/ ChannelEndDropped
            \/ /\ Len(taken_log) >= k
               /\ taken_log[k] = result_log[k]
               /\ taken_log[k].coords = sent_log[k].requested_coords

\* Every request of a run with a re-request was served, all channel ends alive.
C7_Witness ==
    /\ ~ChannelEndDropped
    /\ Len(sent_log) > MAP_SIZE_X
    /\ Len(taken_log) = Len(sent_log)

\* C8: the geometry produced for a request is that of the snapshot taken
\* when the request was built, whatever happened to the world map since.
C8_SnapshotIsolation ==
    \A k \in 1 .. Len(result_log) :
        result_log[k].model_constructor = Geometry(mesh_chunk(sent_log[k]))

\* A result whose chunk was edited between the request and the meshing, so
\* that meshing the live map would have given another geometry.
C8_Witness ==
    \E k \in 1 .. Len(result_log) :
        /\ chunks[result_log[k].coords] # sent_log[k].requested_chunk
        /\ result_log[k].model_constructor
              # Geometry(mesh_chunk(BuildRequest(result_log[k].coords)))

\* C9: a result whose coordinates have no entry in the chunk handle map is
\* handled as a recoverable condition: the process does not terminate.
C9_MissingHandleRecoverable ==
    (\E k \in 1 .. Len(taken_log) : taken_log[k].coords \notin DOMAIN chunk_entity_map)
        => main_state # "panicked"

\* C10: a channel operation of chunk_mesher_loop that fails because the peer
\* was dropped ends the loop cleanly; the worker thread does not panic.
C10_ChannelFailureEndsCleanly ==
    worker_failure \in {"RecvError", "SendError"} => worker_pc = "exited"

\* C15: every coordinate that is a key of the chunk map is a key of the
\* handle map; a handle, once assigned to a coordinate, is never removed or
\* changed; and every result taken for a coordinate is attached to the handle
\* that coordinate was given at construction.
C15_HandlesStable ==
    /\ [](DOMAIN chunks \subseteq DOMAIN chunk_entity_map)
    /\ [][\A c \in DOMAIN chunk_entity_map :
              /\ c \in DOMAIN chunk_entity_map'
              /\ chunk_entity_map'[c] = chunk_entity_map[c]]_vars
    /\ [](\A k \in 1 .. Len(taken_log) :
              /\ taken_log[k].coords \in DOMAIN chunk_entity_map
              /\ chunk_entity_map[taken_log[k].coords] = EntityIdOf(taken_log[k].coords)
              /\ models[EntityIdOf(taken_log[k].coords)] # None)

\* A chunk was edited and meshed again, and its second result was attached to
\* the handle that received the first.
C15_Witness ==
    \E c \in DOMAIN chunks :
        /\ TakenCount(c) >= 2
        /\ chunk_entity_map[c] = EntityIdOf(c)
        /\ \E k \in 1 .. Len(taken_log) :
              /\ taken_log[k].coords = c
              /\ \A j \in (k + 1) .. Len(taken_log) : taken_log[j].coords # c
              /\ models[chunk_entity_map[c]] = Some(Model_new(taken_log[k].model_constructor))

\* C16: update_models_sys never blocks: while the game runs it can run
\* whatever the worker is doing and whether or not a result is queued; a run
\* takes every result that is queued, leaving the channel empty, and a run
\* with nothing queued takes nothing.
C16_DrainsWithoutBlocking ==
    /\ [](main_state = "running" => ENABLED Render)
    /\ [][taken_log' # taken_log =>
              /\ taken_log' = taken_log \o output_chan
              /\ output_chan' = << >>]_vars
    /\ [][output_chan = << >> => taken_log' = taken_log /\ models' = models]_vars

\* update_models_sys has run and taken a result, no result is queued now, and
\* the worker is in the middle of meshing the next request: the system can
\* run again at once.
C16_Witness ==
    /\ main_state = "running"
    /\ taken_log # << >>
    /\ output_chan = << >>
    /\ worker_pc = "mesh"
    /\ ENABLED Render

\* The results of queue whose coordinates map to the handle e.
ResultsFor(queue, e) ==
    {i \in 1 .. Len(queue) : chunk_entity_map[queue[i].coords] = e}

Last(indices) == CHOOSE i \in indices : \A j \in indices : j <= i

\* C17: a run of update_models_sys gives each handle the model built from the
\* last queued result whose embedded coordinates map to that handle, and
\* leaves the model of every handle no queued result maps to unchanged.
C17_ResultsRoutedByCoords ==
    [][taken_log' # taken_log =>
          \A e \in DOMAIN models :
              IF ResultsFor(output_chan, e) = {}
              THEN models'[e] = models[e]
              ELSE models'[e] =
                      Some(Model_new(
                          output_chan[Last(ResultsFor(output_chan, e))].model_constructor))]_vars

\* The first result taken was for the second chunk and the second for the
\* first chunk; each handle holds the model of its own chunk.
C17_Witness ==
    /\ Len(taken_log) = 2
    /\ taken_log[1].coords = ChunkCoords_new(1, 0, 0)
    /\ taken_log[2].coords = ChunkCoords_new(0, 0, 0)
    /\ taken_log[1].model_constructor # taken_log[2].model_constructor
    /\ \A k \in 1 .. 2 :
          models[chunk_entity_map[taken_log[k].coords]]
              = Some(Model_new(taken_log[k].model_constructor))

\* The number of requests the worker has received.
ReceivedCount == Len(sent_log) - Len(requests_chan)

\* C20: the worker handles one request at a time: between receiving a request
\* and sending its result it receives no other, it has sent exactly one
\* result for every request it finished, that result carries the request's
\* coordinates, and it is back at recv only when every received request has
\* its result sent.
C20_OneRequestAtATime ==
    /\ ReceivedCount - Len(result_log) \in {0, 1}
    /\ worker_pc = "recv" => ReceivedCount = Len(result_log)
    /\ worker_pc \in {"mesh", "send"} =>
          /\ ReceivedCount = Len(result_log) + 1
          /\ worker_request = Some(sent_log[ReceivedCount])
    /\ worker_pc = "send" =>
          Unwrap(worker_result).coords = Unwrap(worker_request).requested_coords
    /\ \A k \in 1 .. Len(result_log) :
          result_log[k].coords = sent_log[k].requested_coords

\* The worker has sent a result and is meshing the next request while a
\* third waits in the channel.
C20_Witness ==
    /\ worker_pc = "mesh"
    /\ Len(result_log) >= 1
    /\ Len(requests_chan) >= 1
    /\ Unwrap(worker_request) = sent_log[Len(result_log) + 1]

\* C21: the geometry of a result is a function of its request alone: two
\* requests of the stream with equal coordinates, target chunk and neighbour
\* snapshots have results with identical vertices, indices and transform,
\* whatever the worker meshed before each of them.
C21_GeometryFunctionOfRequest ==
    \A j, k \in 1 .. Len(result_log) :
        sent_log[j] = sent_log[k] =>
            result_log[j].model_constructor = result_log[k].model_constructor

\* The same request was meshed twice, a different one in between, and the
\* geometry is not empty.
C21_Witness ==
    \E j, k \in 1 .. Len(result_log) :
        /\ j + 1 < k
        /\ sent_log[j] = sent_log[k]
        /\ sent_log[j + 1] # sent_log[j]
        /\ result_log[k].model_constructor.vertices # << >>
        /\ result_log[j].model_constructor = result_log[k].model_constructor

-----------------------------------------------------------------------------
(* Further properties of the emitted geometry                               *)

\* C22: the colour of an emitted face is resolved from the BlockId stored in
\* its cell: faces of cells holding the same block id carry the same colour,
\* and the four vertices of a quad carry one colour.
C22_ColourFromBlockId ==
    (m_out # None /\ ~m_out[1].panicked) =>
        \E faces \in {VisibleFaces(Unwrap(m_vis))} :
            \E vs \in {m_out[1].vertices} :
                /\ \A k \in 1 .. Len(faces), i \in 2 .. 4 :
                      vs[4 * (k - 1) + i].color = vs[4 * (k - 1) + 1].color
                /\ \A j, k \in 1 .. Len(faces) :
                      get_block(m_request.requested_chunk, faces[j].coords)
                          = get_block(m_request.requested_chunk, faces[k].coords)
                      => vs[4 * (j - 1) + 1].color = vs[4 * (k - 1) + 1].color

\* C23: the geometry mesh_chunk returns for a request with coordinates
\* (cx, cy, cz) has identity rotation and translation (cx * SIZE, cy * SIZE,
\* cz * SIZE), also when it has no face; add_block_face leaves the transform
\* as it is.
C23_TransformIsChunkTranslation ==
    (m_out # None /\ ~m_out[1].panicked) =>
        \E mc \in {m_out[1]} :
            /\ mc.transform.rotation = "IDENTITY"
            /\ mc.transform.translation =
                  << m_request.requested_coords.x * SIZE,
                     m_request.requested_coords.y * SIZE,
                     m_request.requested_coords.z * SIZE >>
            /\ \A c \in {InnerChunkCoords_new(0, 0, 0),
                         InnerChunkCoords_new(SIZE - 1, 1, 0)}, d \in FaceDirections :
                  add_block_face(mc, c, d, Color_new(16, 200, 16)).transform = mc.transform

\* A chunk away from the origin with no face to emit was meshed.
C23_Witness ==
    /\ m_out # None
    /\ ~m_out[1].panicked
    /\ m_request.requested_coords = ChunkCoords_new(1, 0, -2)
    /\ m_out[1].transform.translation = << SIZE, 0, -2 * SIZE >>
    /\ m_out[1].vertices = << >>

\* The get_block call generate_visibility_map makes after the boundary test
\* of direction d with every direction read from the target chunk at the
\* cell one step away.
LookupNoBoundaryTest(request, d, x, y, z) ==
    Some([chunk |-> request.requested_chunk,
          coords |-> InnerChunkCoordsAdd(InnerChunkCoords_new(x, y, z),
                                         InnerChunkCoordsFromFaceDirection(d))])

\* The get_block call generate_visibility_map makes for direction d of the
\* occupied cell (x, y, z): the chunk it reads and the coordinates it builds
\* with InnerChunkCoords::new; None when the cell is on the boundary of d and
\* the neighbour snapshot is absent (no call is made).
Lookup(request, d, x, y, z) ==
    CASE d = "PosX" ->
            IF x = SIZE - 1
            THEN IF IsSome(request.pos_x_adj)
                 THEN Some([chunk |-> Unwrap(request.pos_x_adj),
                            coords |-> InnerChunkCoords_new(0, y, z)])
                 ELSE None
            ELSE Some([chunk |-> request.requested_chunk,
                       coords |-> InnerChunkCoords_new(x + 1, y, z)])
      [] d = "NegX" ->
            IF x = 0
            THEN IF IsSome(request.neg_x_adj)
                 THEN Some([chunk |-> Unwrap(request.neg_x_adj),
                            coords |-> InnerChunkCoords_new(SIZE - 1, y, z)])
                 ELSE None
            ELSE Some([chunk |-> request.requested_chunk,
                       coords |-> InnerChunkCoords_new(x - 1, y, z)])
      [] d = "PosY" ->
            IF y = SIZE - 1
            THEN IF IsSome(request.pos_y_adj)
                 THEN Some([chunk |-> Unwrap(request.pos_y_adj),
                            coords |-> InnerChunkCoords_new(x, 0, z)])
                 ELSE None
            ELSE Some([chunk |-> request.requested_chunk,
                       coords |-> InnerChunkCoords_new(x, y + 1, z)])
      [] d = "NegY" ->
            IF y = 0
            THEN IF IsSome(request.neg_y_adj)
                 THEN Some([chunk |-> Unwrap(request.neg_y_adj),
                            coords |-> InnerChunkCoords_new(x, SIZE - 1, z)])
                 ELSE None
            ELSE Some([chunk |-> request.requested_chunk,
                       coords |-> InnerChunkCoords_new(x, y - 1, z)])
      [] d = "PosZ" ->
            IF z = SIZE - 1
            THEN IF IsSome(request.pos_z_adj)
                 THEN Some([chunk |-> Unwrap(request.pos_z_adj),
                            coords |-> InnerChunkCoords_new(x, y, 0)])
                 ELSE None
            ELSE Some([chunk |-> request.requested_chunk,
                       coords |-> InnerChunkCoords_new(x, y, z + 1)])
      [] d = "NegZ" ->
            IF z = 0
            THEN IF IsSome(request.neg_z_adj)
                 THEN Some([chunk |-> Unwrap(request.neg_z_adj),
                            coords |-> InnerChunkCoords_new(x, y, SIZE - 1)])
                 ELSE None
            ELSE Some([chunk |-> request.requested_chunk,
                       coords |-> InnerChunkCoords_new(x, y, z - 1)])

\* C24: every coordinate triple generate_visibility_map and mesh_chunk read a
\* chunk with has its three axes in 0 .. SIZE - 1 and an index in
\* 0 .. BLOCKS_COUNT - 1: the loop coordinates, and for each occupied cell
\* and direction the neighbour lookup, which reads the target chunk only at
\* the cell one step away inside the chunk and otherwise the neighbour
\* snapshot at the touching cell.  The flags written are the ones these
\* lookups give.
C24_LookupsInRange ==
    m_vis # None =>
        /\ \A k \in 0 .. BLOCKS_COUNT - 1 :
              /\ InChunk(LoopCoords(k))
              /\ as_idx(LoopCoords(k)) \in 0 .. BLOCKS_COUNT - 1
        /\ \A c \in OccupiedCells(m_request.requested_chunk), d \in FaceDirections :
              \E l \in {Lookup(m_request, d, c.x, c.y, c.z)} :
                  IF l = None
                  THEN /\ ~InChunk(NeighbourCell(c, d))
                       /\ Adjacent(m_request, d) = None
                       /\ ~Flag(c, d)
                  ELSE /\ InChunk(Unwrap(l).coords)
                       /\ as_idx(Unwrap(l).coords) \in 0 .. BLOCKS_COUNT - 1
                       /\ IF InChunk(NeighbourCell(c, d))
                          THEN /\ Unwrap(l).coords = NeighbourCell(c, d)
                               /\ Unwrap(l).chunk = m_request.requested_chunk
                          ELSE /\ Unwrap(l).coords = WrappedCell(c, d)
                               /\ Some(Unwrap(l).chunk) = Adjacent(m_request, d)
                       /\ Flag(c, d) = (get_block(Unwrap(l).chunk, Unwrap(l).coords) = None)

\* A solid target between solid neighbours was analysed: the corner cell
\* (0, 0, SIZE - 1) reads the -X snapshot at (SIZE - 1, 0, SIZE - 1) and the
\* target at (1, 0, SIZE - 1).
C24_Witness ==
    /\ m_vis # None
    /\ m_request.requested_chunk = FullChunk
    /\ m_request.neg_x_adj = Some(FullChunk)
    /\ Lookup(m_request, "NegX", 0, 0, SIZE - 1)
          = Some([chunk |-> FullChunk,
                  coords |-> InnerChunkCoords_new(SIZE - 1, 0, SIZE - 1)])
    /\ Lookup(m_request, "PosX", 0, 0, SIZE - 1)
          = Some([chunk |-> FullChunk,
                  coords |-> InnerChunkCoords_new(1, 0, SIZE - 1)])
    /\ ~Flag(InnerChunkCoords_new(0, 0, SIZE - 1), "NegX")

\* The axis of direction d: 1 for X, 2 for Y, 3 for Z.
AxisOf(d) ==
    CASE d \in {"PosX", "NegX"} -> 1
      [] d \in {"PosY", "NegY"} -> 2
      [] d \in {"PosZ", "NegZ"} -> 3

\* The corners of the side of the unit cube of cell c that faces d (half
\* units): on the axis of d the block coordinate plus 1 (positive d) or plus
\* 0 (negative d), on the other two axes the block coordinate plus 0 or 1.
SideCorners(c, d) ==
    {p \in {<< 2 * c.x + i, 2 * c.y + j, 2 * c.z + k >> : i, j, k \in {0, 2}} :
        p[AxisOf(d)] = 2 * (<< c.x, c.y, c.z >>[AxisOf(d)] + (IF IsPositiveDir(d) THEN 1 ELSE 0))}

\* C25: the four vertices add_block_face emits for block position c and
\* direction d are the four corners of the side of c's unit cube facing d.
C25_QuadOnFacingSide ==
    Called("add_block_face") =>
        \E vs \in {Unwrap(Unwrap(u_call).result)} :
            \E c \in {Unwrap(u_call).args[1]} :
                \E d \in {Unwrap(u_call).args[2]} :
                    /\ Len(vs) = 4
                    /\ Cardinality(SideCorners(c, d)) = 4
                    /\ {vs[i].position : i \in 1 .. 4} = SideCorners(c, d)
                    /\ \A i \in 1 .. 4 :
                          vs[i].position[AxisOf(d)]
                              = 2 * (<< c.x, c.y, c.z >>[AxisOf(d)]
                                     + (IF IsPositiveDir(d) THEN 1 ELSE 0))

\* add_block_face was called for the -Z face of the block at (1, 0, SIZE - 1):
\* its vertices have z = SIZE - 1.
C25_Witness ==
    /\ Called("add_block_face")
    /\ Unwrap(u_call).args = << InnerChunkCoords_new(1, 0, SIZE - 1), "NegZ" >>
    /\ \A i \in 1 .. 4 :
          Unwrap(Unwrap(u_call).result)[i].position[3] = 2 * (SIZE - 1)

\* What generate_visibility_map decides for the face of cell c in direction
\* d, by the name of the direction.
VisibleToward(request, d, c) ==
    CASE d = "PosX" -> PosXVisible(request, c.x, c.y, c.z)
      [] d = "NegX" -> NegXVisible(request, c.x, c.y, c.z)
      [] d = "PosY" -> PosYVisible(request, c.x, c.y, c.z)
      [] d = "NegY" -> NegYVisible(request, c.x, c.y, c.z)
      [] d = "PosZ" -> PosZVisible(request, c.x, c.y, c.z)
      [] d = "NegZ" -> NegZVisible(request, c.x, c.y, c.z)

\* The quads of vertices, each as the set of its four positions.
Quads(vs) ==
    {{vs[4 * q + i].position : i \in 1 .. 4} : q \in 0 .. (Len(vs) \div 4) - 1}

\* C26: FaceDirection::from(d as usize) = d for each of the six directions,
\* and the geometry of mesh_chunk has a quad on the side of an occupied cell
\* facing d exactly when the face of that cell in direction d was found
\* visible: a flag set for d gives a quad oriented in d and in no other
\* direction.
C26_SlotAndDirectionAgree ==
    /\ \A d \in FaceDirections : FaceDirectionFromUsize(FaceDirectionAsUsize(d)) = d
    /\ (m_out # None /\ ~m_out[1].panicked) =>
          \E quads \in {Quads(m_out[1].vertices)} :
              \A c \in OccupiedCells(m_request.requested_chunk), d \in FaceDirections :
                  VisibleToward(m_request, d, c) <=> SideCorners(c, d) \in quads

\* A block alone at (0, 0, 0) with no neighbour snapshot was meshed: there is
\* a quad on its +X, +Y and +Z sides and none on the other three.
C26_Witness ==
    /\ m_out # None
    /\ ~m_out[1].panicked
    /\ OccupiedCells(m_request.requested_chunk) = {InnerChunkCoords_new(0, 0, 0)}
    /\ \A d \in FaceDirections : Adjacent(m_request, d) = None
    /\ \A d \in FaceDirections :
          SideCorners(InnerChunkCoords_new(0, 0, 0), d) \in Quads(m_out[1].vertices)
              <=> IsPositiveDir(d)

-----------------------------------------------------------------------------
(* Further properties of the pipeline                                       *)

\* C27: once every request sender is dropped chunk_mesher_loop goes on with
\* the requests already queued, in order and one result each, and then
\* terminates: it has ended by the Err of recv only when no request is
\* queued and every request sent has its result sent, it has never ended
\* with a request queued while the result receiver lives, and with the
\* sender dropped it does end.
C27_QueuedRequestsProcessedBeforeExit ==
    /\ [](worker_pc = "exited" =>
            /\ ~req_sender_alive
            /\ requests_chan = << >>
            /\ Len(result_log) = Len(sent_log)
            /\ \A k \in 1 .. Len(sent_log) :
                  result_log[k].coords = sent_log[k].requested_coords)
    /\ []((~WorkerAlive /\ requests_chan # << >>) => ~res_receiver_alive)
    /\ (~req_sender_alive) ~> (~WorkerAlive)

\* The sender is dropped and the receiver lives; the worker has sent a
\* result, is meshing the next request and another one is still queued.
C27_Witness ==
    /\ ~req_sender_alive
    /\ res_receiver_alive
    /\ worker_pc = "mesh"
    /\ requests_chan # << >>
    /\ result_log # << >>

\* The results taken for the chunk at c, by their place in taken_log.
TakenFor(c) == {k \in 1 .. Len(taken_log) : taken_log[k].coords = c}

\* C28: update_models_sys integrates every result it receives: while the
\* receiver lives every result the worker sent is either still queued or
\* was taken, in the order sent, and the model of a chunk handle is the
\* geometry of the last result taken for its coordinate (none before the
\* first), whatever has happened to the chunk's blocks since the snapshot.
C28_EveryResultIntegrated ==
    /\ res_receiver_alive => taken_log \o output_chan = result_log
    /\ \A c \in DOMAIN chunk_entity_map :
          IF TakenFor(c) = {}
          THEN models[chunk_entity_map[c]] = None
          ELSE models[chunk_entity_map[c]]
                  = Some(Model_new(taken_log[Last(TakenFor(c))].model_constructor))

\* After a drain a handle holds the geometry of a result whose chunk was
\* edited after the snapshot: the chunk is tagged MissingModel again and its
\* live contents mesh to another geometry.
C28_Witness ==
    /\ main_state = "running"
    /\ output_chan = << >>
    /\ \E c \in DOMAIN chunk_entity_map :
          /\ TakenFor(c) # {}
          /\ chunk_entity_map[c] \in missing_model
          /\ models[chunk_entity_map[c]]
                = Some(Model_new(taken_log[Last(TakenFor(c))].model_constructor))
          /\ taken_log[Last(TakenFor(c))].model_constructor
                # Geometry(mesh_chunk(BuildRequest(c)))

====
